---- MODULE Spec2Model ----
(***************************************************************************)
(* A model of server.py, the Azure AI Search MCP server.                   *)
(*                                                                         *)
(* Two specifications share the module:                                    *)
(*   SpecCallTool  one invocation of call_tool, step by step, against a    *)
(*                 backend that may return or raise at every call;         *)
(*   Spec          the HTTP server: the routes of main(), the requests of  *)
(*                 several clients and the single event loop that runs     *)
(*                 the handlers.  What the MCP library does inside         *)
(*                 transport.handle_request is not in the source: the      *)
(*                 model lets it either refuse the request or serve it.    *)
(*                                                                         *)
(* Python values are tagged records: PyNone, PyStr(s), PyInt(n),           *)
(* PyBool(b), PyList(l), PyDict(d).  A Python string is a sequence of      *)
(* tokens; "," and "@" are tokens of their own so that split(",") and      *)
(* startswith("@") are computed, not assumed.  A dict is a function from   *)
(* such strings to values.                                                 *)
(***************************************************************************)
EXTENDS Integers, Sequences, FiniteSets, TLC

VARIABLES
    \* ---- one invocation of call_tool
    pc,          \* "idle" | "entered" | "client" | "fold" | "returned" | "raised"
    name,        \* the tool name passed to call_tool
    arguments,   \* the argument dict passed to call_tool
    client,      \* the SearchClient / SearchIndexClient constructed
    backendLog,  \* the backend operations issued so far, in order
    data,        \* what the backend returned
    result,      \* the list of TextContent call_tool returned
    escaped,     \* the exception that left call_tool, or NoExc
    \* ---- the HTTP server
    req,         \* the requests, by id
    sse,         \* the streaming connections of GET /sse, by id
    loop,        \* the request whose call_tool holds the event loop, or 0
    clock        \* the number of requests the server has accepted

ctVars == <<pc, name, arguments, client, backendLog, data, result, escaped>>
srvVars == <<req, sse, loop, clock>>
vars == <<pc, name, arguments, client, backendLog, data, result, escaped,
          req, sse, loop, clock>>

(***************************************************************************)
(* Bounds                                                                  *)
(***************************************************************************)
MaxDocs == 2
MaxReq == 2

(***************************************************************************)
(* Python values                                                           *)
(***************************************************************************)
PyNone == [t |-> "none"]
PyStr(s) == [t |-> "str", v |-> s]
PyInt(n) == [t |-> "int", v |-> n]
PyList(l) == [t |-> "list", v |-> l]
PyBool(b) == [t |-> "bool", v |-> b]
PyDict(d) == [t |-> "dict", v |-> d]

\* a dict literal {k1: v1, ...} from its <<key, value>> pairs; keys are
\* Python strings, that is token sequences
Dict(pairs) ==
    [k \in {pairs[i][1] : i \in 1..Len(pairs)} |->
        pairs[CHOOSE i \in 1..Len(pairs) :
                 /\ pairs[i][1] = k
                 /\ \A j \in 1..Len(pairs) : pairs[j][1] = k => j <= i][2]]

\* Python truthiness, as `x or y` and `if x:` use it.
Truthy(x) ==
    CASE x.t = "none" -> FALSE
      [] x.t = "str" -> x.v # <<>>
      [] x.t = "int" -> x.v # 0
      [] x.t = "list" -> x.v # <<>>
      [] x.t = "bool" -> x.v
      [] x.t = "dict" -> DOMAIN x.v # {}

\* x or y
Or(x, y) == IF Truthy(x) THEN x ELSE y

\* dict.get(k) and dict.get(k, default)
GetOr(d, k, default) == IF k \in DOMAIN d THEN d[k] ELSE default
Get(d, k) == GetOr(d, k, PyNone)

\* d[k] = v
DictSet(d, k, v) == [x \in (DOMAIN d) \cup {k} |-> IF x = k THEN v ELSE d[x]]

\* k.startswith(p), p one token
StartsWith(k, p) == Len(k) >= 1 /\ k[1] = p

\* s.split(","): the pieces between the commas, empty pieces kept
RECURSIVE SplitAcc(_, _, _)
SplitAcc(s, cur, acc) ==
    IF s = <<>> THEN Append(acc, cur)
    ELSE IF Head(s) = "," THEN SplitAcc(Tail(s), <<>>, Append(acc, cur))
    ELSE SplitAcc(Tail(s), Append(cur, Head(s)), acc)
Split(s) == SplitAcc(s, <<>>, <<>>)

(***************************************************************************)
(* Configuration and the tool descriptors                                  *)
(***************************************************************************)
AZURE_SEARCH_INDEX == PyStr(<<"default-index">>)

ToolNames == {"search", "vector_search", "list_indexes", "get_index_schema",
              "get_document", "get_document_count"}

\* inputSchema["required"] of each descriptor of list_tools
Required(n) ==
    CASE n = "search" -> {"query"}
      [] n = "vector_search" -> {"query"}
      [] n = "list_indexes" -> {}
      [] n = "get_index_schema" -> {"index_name"}
      [] n = "get_document" -> {"key"}
      [] n = "get_document_count" -> {}
      [] OTHER -> {}

\* the names a client may send: the six tools and two that are not tools
Names == ToolNames \cup {"delete_index", "Search"}

\* inputSchema["properties"] of each descriptor of list_tools
Properties(n) ==
    CASE n = "search" -> {"query", "index_name", "top", "select", "filter"}
      [] n = "vector_search" ->
            {"query", "index_name", "top", "select", "semantic_configuration"}
      [] n = "list_indexes" -> {}
      [] n = "get_index_schema" -> {"index_name"}
      [] n = "get_document" -> {"key", "index_name", "select"}
      [] n = "get_document_count" -> {"index_name"}
      [] OTHER -> {"query"}

ArgValues(k) ==
    CASE k = "query" -> {PyStr(<<"q">>)}
      [] k = "index_name" -> {PyStr(<<>>), PyStr(<<"products">>)}
      [] k = "top" -> {PyInt(5)}
      [] k = "select" -> {PyStr(<<"id", ",", "name">>), PyList(<<"id">>)}
      [] k = "filter" -> {PyStr(<<"f">>)}
      [] k = "semantic_configuration" -> {PyStr(<<"sc">>)}
      [] k = "key" -> {PyStr(<<"k1">>)}

\* the argument dicts a client may send with tool name n: any subset of the
\* declared properties (call_tool reads no other key)
RECURSIVE DictsOver(_)
DictsOver(ks) ==
    IF ks = {} THEN {[k \in {} |-> PyNone]}
    ELSE LET k == CHOOSE x \in ks : TRUE
         IN {DictSet(d, k, v) : d \in DictsOver(ks \ {k}), v \in ArgValues(k)}

ArgDicts(n) == UNION {DictsOver(ks) : ks \in SUBSET Properties(n)}

(***************************************************************************)
(* Exceptions                                                              *)
(***************************************************************************)
NoExc == [cls |-> "none"]
Exc(c, m) == [cls |-> c, msg |-> m]

\* what the Azure SDK may raise: all are subclasses of Exception
BackendErrors == {Exc("HttpResponseError", <<"index not found">>),
                  Exc("ServiceRequestError", <<"connection refused">>)}
ClientErrors == {Exc("ValueError", <<"Parameter 'endpoint' must not be None.">>)}
DumpErrors == {Exc("TypeError", <<"Object is not JSON serializable">>)}

\* json.dumps(payload): the serialised text of a payload
JsonDumps(payload) == [json |-> payload]

\* TextContent(type="text", text=...)
TextContent(text) == [type |-> "text", text |-> text]

\* a narrower except clause: only the ValueError of the unknown-tool branch
ExceptValueErrorOnly(e) ==
    IF e.cls = "ValueError"
    THEN [result |-> <<TextContent(JsonDumps(
                         PyDict(Dict(<< <<<<"error">>, PyStr(e.msg)>> >>))))>>,
          escaped |-> NoExc]
    ELSE [result |-> <<>>, escaped |-> e]

\* `except Exception as e`: what call_tool returns and what leaves it
ExceptClause(e) ==
    [result |-> <<TextContent(JsonDumps(
                     PyDict(Dict(<< <<<<"error">>, PyStr(e.msg)>> >>))))>>,
     escaped |-> NoExc]

(***************************************************************************)
(* The backend (Azure AI Search), as call_tool sees it                     *)
(***************************************************************************)
\* field names a backend document may carry
\* every document has its key field; the others come and go
KeyFieldName == <<"id">>
FieldNames == {<<"_reranker_score">>,
               <<"@", "search.score">>, <<"@", "search.reranker_score">>}

FieldValue(k) ==
    CASE k = <<"id">> -> PyStr(<<"d1">>)
      [] k = <<"_reranker_score">> -> PyStr(<<"stored">>)
      [] k = <<"@", "search.score">> -> PyInt(7)
      [] k = <<"@", "search.reranker_score">> -> PyInt(3)

BackendDocs ==
    {[k \in ks \cup {KeyFieldName} |-> FieldValue(k)] : ks \in SUBSET FieldNames}

RECURSIVE SeqsUpTo(_, _)
SeqsUpTo(S, n) ==
    IF n = 0 THEN {<<>>}
    ELSE LET shorter == SeqsUpTo(S, n - 1)
         IN shorter \cup {Append(q, x) : q \in {r \in shorter : Len(r) = n - 1},
                                           x \in S}

IdField == [name |-> "id", type |-> "Edm.String", searchable |-> FALSE,
            filterable |-> FALSE, sortable |-> FALSE, facetable |-> FALSE,
            key |-> TRUE]
NameField == [name |-> "name", type |-> "Edm.String", searchable |-> TRUE,
              filterable |-> TRUE, sortable |-> FALSE, facetable |-> FALSE,
              key |-> FALSE]

\* SearchIndex objects: fields may be None, semantic_search may be None
BackendIndexes ==
    {[name |-> "products", fields |-> f, semantic_search |-> ss] :
        f \in {PyNone, PyList(<<>>), PyList(<<IdField, NameField>>)},
        ss \in {PyNone, PyList(<<[name |-> "sc"]>>)}}

BackendCounts == {0, 42}

\* what the backend may return to the operation of tool n
BackendData(n) ==
    CASE n \in {"search", "vector_search"} -> SeqsUpTo(BackendDocs, MaxDocs)
      [] n = "list_indexes" -> SeqsUpTo(BackendIndexes, 1)
      [] n = "get_index_schema" -> BackendIndexes
      [] n = "get_document" -> BackendDocs
      [] n = "get_document_count" -> BackendCounts
      [] OTHER -> {}

(***************************************************************************)
(* call_tool                                                               *)
(***************************************************************************)
GetSearchClient(index_name) ==
    [kind |-> "SearchClient", index_name |-> Or(index_name, AZURE_SEARCH_INDEX)]

GetIndexClient == [kind |-> "SearchIndexClient"]

\* the client each branch constructs before its backend call
ClientFor(n, a) ==
    IF n \in {"list_indexes", "get_index_schema"}
    THEN GetIndexClient
    ELSE GetSearchClient(Get(a, "index_name"))

\* select.split(",") if select else nothing
SelectOption(a) ==
    IF Truthy(Get(a, "select"))
    THEN [select |-> PyList(Split(Get(a, "select").v))]
    ELSE [select |-> PyNone]

\* the backend operation each branch issues, with its parameters
BackendOp(n, a, c) ==
    CASE n = "search" ->
            [op |-> "search", index |-> c.index_name,
             search_text |-> Get(a, "query"),
             top |-> GetOr(a, "top", PyInt(10)),
             select |-> SelectOption(a).select,
             filter |-> IF Truthy(Get(a, "filter")) THEN Get(a, "filter")
                        ELSE PyNone]
      [] n = "vector_search" ->
            [op |-> "search", index |-> c.index_name,
             search_text |-> Get(a, "query"),
             top |-> GetOr(a, "top", PyInt(10)),
             query_type |-> "semantic",
             semantic_configuration_name |->
                 Or(Get(a, "semantic_configuration"), PyStr(<<"default">>)),
             select |-> SelectOption(a).select]
      [] n = "list_indexes" -> [op |-> "list_indexes"]
      [] n = "get_index_schema" ->
            [op |-> "get_index", index |-> Get(a, "index_name")]
      [] n = "get_document" ->
            [op |-> "get_document", index |-> c.index_name,
             key |-> Get(a, "key"), selected_fields |-> SelectOption(a).select]
      [] n = "get_document_count" ->
            [op |-> "get_document_count", index |-> c.index_name]

\* doc = {k: v for k, v in result.items() if not k.startswith("@")}
StripAt(r) == [k \in {x \in DOMAIN r : ~StartsWith(x, "@")} |-> r[k]]

\* the loop body of the vector_search branch
VectorDocument(r) ==
    DictSet(DictSet(StripAt(r), <<"_score">>, Get(r, <<"@", "search.score">>)),
            <<"_reranker_score">>, Get(r, <<"@", "search.reranker_score">>))

\* the search loop with the vector_search loop's extra line
SearchDocumentWithReranker(r) == VectorDocument(r)

\* the loop body of the search branch
SearchDocument(r) ==
    DictSet(StripAt(r), <<"_score">>, Get(r, <<"@", "search.score">>))

Documents(n, rs) ==
    [i \in 1..Len(rs) |-> IF n = "vector_search" THEN VectorDocument(rs[i])
                          ELSE SearchDocument(rs[i])]

\* the processing of the backend's answer raises (still inside the try):
\* get_index_schema iterates index.fields, which may be None
FoldRaises(n, d) == n = "get_index_schema" /\ d.fields.t = "none"

\* one entry of `fields` in the get_index_schema branch
FieldDict(f) ==
    Dict(<< <<<<"name">>, PyStr(<<f.name>>)>>,
            <<<<"type">>, PyStr(<<f.type>>)>>,
            <<<<"searchable">>, PyBool(f.searchable)>>,
            <<<<"filterable">>, PyBool(f.filterable)>>,
            <<<<"sortable">>, PyBool(f.sortable)>>,
            <<<<"facetable">>, PyBool(f.facetable)>>,
            <<<<"key">>, PyBool(f.key)>> >>)

\* the payload each branch serialises
Payload(n, a, d) ==
    CASE n \in {"search", "vector_search"} ->
            Dict(<< <<<<"results">>,
                      PyList([i \in 1..Len(d) |-> PyDict(Documents(n, d)[i])])>>,
                    <<<<"count">>, PyInt(Len(Documents(n, d)))>> >>)
      [] n = "list_indexes" ->
            Dict(<< <<<<"indexes">>,
                      PyList([i \in 1..Len(d) |->
                          PyDict(Dict(<<
                              <<<<"name">>, PyStr(<<d[i].name>>)>>,
                              <<<<"fields_count">>,
                                PyInt(IF Truthy(d[i].fields)
                                      THEN Len(d[i].fields.v) ELSE 0)>> >>))])>>
                 >>)
      [] n = "get_index_schema" ->
            Dict(<< <<<<"index_name">>, PyStr(<<d.name>>)>>,
                    <<<<"fields">>,
                      PyList([i \in 1..Len(d.fields.v) |->
                                 PyDict(FieldDict(d.fields.v[i]))])>>,
                    <<<<"semantic_configurations">>,
                      PyList(IF Truthy(d.semantic_search)
                             THEN [i \in 1..Len(d.semantic_search.v) |->
                                     PyStr(<<d.semantic_search.v[i].name>>)]
                             ELSE <<>>)>> >>)
      [] n = "get_document" -> d
      [] n = "get_document_count" ->
            Dict(<< <<<<"index">>, Or(Get(a, "index_name"), AZURE_SEARCH_INDEX)>>,
                    <<<<"document_count">>, PyInt(d)>> >>)

\* an exception raised inside the try block reaches the except clause
Handle(e) ==
    /\ result' = ExceptClause(e).result
    /\ escaped' = ExceptClause(e).escaped
    /\ pc' = IF ExceptClause(e).escaped = NoExc THEN "returned" ELSE "raised"

\* a client calls call_tool(n, a)
CallTool(n, a) ==
    /\ pc = "idle"
    /\ pc' = "entered"
    /\ name' = n
    /\ arguments' = a
    /\ UNCHANGED <<client, backendLog, data, result, escaped>>
    /\ UNCHANGED srvVars

\* a message that leaves the name out
UnknownToolErrorNoName(n) == Exc("ValueError", <<"Unknown tool">>)

\* ValueError(f"Unknown tool: {name}")
UnknownToolError(n) == Exc("ValueError", <<"Unknown tool: ", n>>)

\* the else branch: raise ValueError(f"Unknown tool: {name}")
UnknownTool ==
    /\ pc = "entered"
    /\ name \notin ToolNames
    /\ Handle(UnknownToolError(name))
    /\ UNCHANGED <<name, arguments, client, backendLog, data>>
    /\ UNCHANGED srvVars

\* a known branch reads its arguments and constructs its client
Construct ==
    /\ pc = "entered"
    /\ name \in ToolNames
    /\ client' = ClientFor(name, arguments)
    /\ pc' = "client"
    /\ UNCHANGED <<name, arguments, backendLog, data, result, escaped>>
    /\ UNCHANGED srvVars

\* the client constructor (or get_credential) raises
ConstructRaises(e) ==
    /\ pc = "entered"
    /\ name \in ToolNames
    /\ Handle(e)
    /\ UNCHANGED <<name, arguments, client, backendLog, data>>
    /\ UNCHANGED srvVars

\* select.split(",") on a select that is truthy but no string
SplitRaises(n, a) ==
    /\ n \in {"search", "vector_search", "get_document"}
    /\ Truthy(Get(a, "select"))
    /\ Get(a, "select").t # "str"

\* building the options raises before the backend call is issued
OptionsRaise ==
    /\ pc = "client"
    /\ SplitRaises(name, arguments)
    /\ Handle(Exc("AttributeError", <<"'list' object has no attribute 'split'">>))
    /\ UNCHANGED <<name, arguments, client, backendLog, data>>
    /\ UNCHANGED srvVars

\* the backend operation is issued and answers
BackendCall ==
    /\ pc = "client"
    /\ ~SplitRaises(name, arguments)
    /\ backendLog' = Append(backendLog, BackendOp(name, arguments, client))
    /\ \E d \in BackendData(name) : data' = d
    /\ pc' = "fold"
    /\ UNCHANGED <<name, arguments, client, result, escaped>>
    /\ UNCHANGED srvVars

\* the backend operation is issued and raises
BackendRaises(e) ==
    /\ pc = "client"
    /\ ~SplitRaises(name, arguments)
    /\ backendLog' = Append(backendLog, BackendOp(name, arguments, client))
    /\ Handle(e)
    /\ UNCHANGED <<name, arguments, client, data>>
    /\ UNCHANGED srvVars

\* the branch builds its payload and returns it, or raises while building
Return ==
    /\ pc = "fold"
    /\ IF FoldRaises(name, data)
       THEN Handle(Exc("TypeError", <<"'NoneType' object is not iterable">>))
       ELSE /\ result' =
                 <<TextContent(JsonDumps(
                       PyDict(Payload(name, arguments, data))))>>
            /\ pc' = "returned"
            /\ UNCHANGED escaped
    /\ UNCHANGED <<name, arguments, client, backendLog, data>>
    /\ UNCHANGED srvVars

\* json.dumps raises
DumpRaises(e) ==
    /\ pc = "fold"
    /\ Handle(e)
    /\ UNCHANGED <<name, arguments, client, backendLog, data>>
    /\ UNCHANGED srvVars

NextCallTool ==
    \/ \E n \in Names : \E a \in ArgDicts(n) : CallTool(n, a)
    \/ UnknownTool
    \/ Construct
    \/ \E e \in ClientErrors : ConstructRaises(e)
    \/ OptionsRaise
    \/ BackendCall
    \/ \E e \in BackendErrors : BackendRaises(e)
    \/ Return
    \/ \E e \in DumpErrors : DumpRaises(e)

InitCallTool ==
    /\ pc = "idle"
    /\ name = ""
    /\ arguments = <<>>
    /\ client = PyNone
    /\ backendLog = <<>>
    /\ data = PyNone
    /\ result = <<>>
    /\ escaped = NoExc

(***************************************************************************)
(* Properties of call_tool, over the behaviours of SpecCallTool            *)
(***************************************************************************)
ErrorResult(m) ==
    <<TextContent(JsonDumps(PyDict(Dict(<< <<<<"error">>, PyStr(m)>> >>))))>>

IsTextResult(res) ==
    /\ Len(res) = 1
    /\ res[1].type = "text"
    /\ res[1].text.json.t = "dict"

IsErrorResult(res) ==
    /\ IsTextResult(res)
    /\ DOMAIN res[1].text.json.v = {<<"error">>}

\* the documents of a returned search / vector_search payload
ReturnedDocs == result[1].text.json.v[<<"results">>].v

ReturnedSearch(n) ==
    /\ pc = "returned"
    /\ name = n
    /\ ~IsErrorResult(result)

\* C1: whatever the tool name, the arguments and the backend's behaviour
\* (return or raise, at the client constructor, at the backend call, in the
\* serialisation), call_tool never stops half way, no exception leaves it,
\* and what it returns is exactly one text block holding either the error
\* object {"error": message} or the success payload of the tool.
C1_AlwaysWellFormedResult ==
    /\ pc # "raised"
    /\ escaped = NoExc
    /\ (pc \in {"entered", "client", "fold"} =>
          ENABLED (UnknownTool \/ Construct \/ OptionsRaise \/ BackendCall
                      \/ Return))
    /\ (pc = "returned" =>
          /\ IsTextResult(result)
          /\ \/ IsErrorResult(result)
             \/ /\ name \in ToolNames
                /\ Len(backendLog) = 1
                /\ result[1].text.json.v = Payload(name, arguments, data))

C1_Witness ==
    /\ pc = "returned"
    /\ name = "get_document"
    /\ Len(backendLog) = 1
    /\ result = ErrorResult(<<"connection refused">>)

\* C2: a name that is none of the six tools is answered with the error
\* result "Unknown tool: <name>", the literal name included; nothing is
\* raised, no client is constructed and no backend call is made.
C2_UnknownToolIsErrorResult ==
    (pc \in {"returned", "raised"} /\ name \notin ToolNames) =>
        /\ pc = "returned"
        /\ escaped = NoExc
        /\ result = ErrorResult(<<"Unknown tool: ", name>>)
        /\ backendLog = <<>>
        /\ client = PyNone

C2_Witness ==
    /\ pc = "returned"
    /\ name = "delete_index"
    /\ DOMAIN arguments = {"query"}

MissingRequired ==
    /\ name \in ToolNames
    /\ \E k \in Required(name) : k \notin DOMAIN arguments

\* C3: a call that omits a parameter its tool declares required is answered
\* with an error result and issues no backend operation.
C3_MissingRequiredRejected ==
    (pc # "idle" /\ MissingRequired) =>
        /\ backendLog = <<>>
        /\ (pc = "returned" => IsErrorResult(result))

\* C9 as stated: every vector_search document carries _reranker_score and
\* _score, and no search document carries _reranker_score, whatever fields
\* the backend's documents have.
C9_SearchNeverCarriesReranker ==
    /\ ReturnedSearch("vector_search") =>
          \A i \in 1..Len(ReturnedDocs) :
              {<<"_score">>, <<"_reranker_score">>} \subseteq
                  DOMAIN ReturnedDocs[i].v
    /\ ReturnedSearch("search") =>
          \A i \in 1..Len(ReturnedDocs) :
              <<"_reranker_score">> \notin DOMAIN ReturnedDocs[i].v

\* C9 amended: every vector_search document carries _reranker_score and
\* _score; a search document carries _score, and carries _reranker_score
\* exactly when the backend's document has a field of that name, whose
\* value it then passes through: the search branch adds none of its own.
C9_SearchAddsNoReranker ==
    /\ ReturnedSearch("vector_search") =>
          /\ Len(ReturnedDocs) = Len(data)
          /\ \A i \in 1..Len(ReturnedDocs) :
                {<<"_score">>, <<"_reranker_score">>} \subseteq
                    DOMAIN ReturnedDocs[i].v
    /\ ReturnedSearch("search") =>
          /\ Len(ReturnedDocs) = Len(data)
          /\ \A i \in 1..Len(ReturnedDocs) :
                /\ <<"_score">> \in DOMAIN ReturnedDocs[i].v
                /\ <<"_reranker_score">> \in DOMAIN ReturnedDocs[i].v
                      <=> <<"_reranker_score">> \in DOMAIN data[i]
                /\ <<"_reranker_score">> \in DOMAIN data[i] =>
                      ReturnedDocs[i].v[<<"_reranker_score">>]
                          = data[i][<<"_reranker_score">>]

C9_Witness ==
    /\ ReturnedSearch("search")
    /\ Len(ReturnedDocs) = MaxDocs
    /\ <<"_reranker_score">> \in DOMAIN data[1]
    /\ <<"_reranker_score">> \notin DOMAIN data[MaxDocs]
    /\ <<"@", "search.reranker_score">> \in DOMAIN data[MaxDocs]

\* C10: whenever index_name is left out of the arguments, the backend
\* operation of the tool (list_indexes, which names no index, aside) goes to
\* the default index; and get_document_count with empty arguments returns
\* {"index": <default index>, "document_count": <the backend's count>}.
C10_OmittedIndexIsDefault ==
    /\ "index_name" \notin DOMAIN arguments =>
          \A i \in 1..Len(backendLog) :
              backendLog[i].op # "list_indexes" =>
                  backendLog[i].index = AZURE_SEARCH_INDEX
    /\ ( /\ pc = "returned"
         /\ name = "get_document_count"
         /\ DOMAIN arguments = {}
         /\ ~IsErrorResult(result) ) =>
          result[1].text.json.v =
              Dict(<< <<<<"index">>, AZURE_SEARCH_INDEX>>,
                      <<<<"document_count">>, PyInt(data)>> >>)

(***************************************************************************)
(* The HTTP server: main(), mcp_endpoint, handle_sse, handle_messages      *)
(***************************************************************************)
Requests == 1..MaxReq
SessionIds == {"a", "b"}
NoSid == "none"        \* no mcp-session-id header, no session_id parameter

NoRequest ==
    [pc |-> "unsent", route |-> "", method |-> "", sid |-> NoSid, kind |-> "",
     transport |-> NoSid, gone |-> FALSE, calls |-> 0, outcome |-> "none"]

InitServer ==
    /\ req = [r \in Requests |-> NoRequest]
    /\ sse = [c \in SessionIds |-> "absent"]
    /\ loop = 0
    /\ clock = 0

\* whether the event loop may run a handler while request `holder` (0: none)
\* is inside call_tool: call_tool is a coroutine with no await and its
\* backend call is synchronous, so from its first line to its return nothing
\* else runs on the loop of uvicorn.run
LoopFree(holder) == holder = 0

\* mcp_endpoint up to its await: a transport of the request's own, built
\* with the session id the request itself carries; the body is still to come
McpEndpoint(r, method, sid, kind) ==
    /\ LoopFree(loop)
    /\ r = clock + 1
    /\ r \in Requests
    /\ clock' = r
    /\ req' = [req EXCEPT ![r] =
                 [NoRequest EXCEPT !.pc = "reading", !.route = "/mcp",
                                   !.method = method, !.sid = sid,
                                   !.kind = kind, !.transport = sid]]
    /\ UNCHANGED <<sse, loop>>
    /\ UNCHANGED ctVars

\* handle_messages up to its await: POST /messages?session_id=sid
HandleMessages(r, sid) ==
    /\ LoopFree(loop)
    /\ r = clock + 1
    /\ r \in Requests
    /\ clock' = r
    /\ req' = [req EXCEPT ![r] =
                 [NoRequest EXCEPT !.pc = "reading", !.route = "/messages",
                                   !.method = "POST", !.sid = sid,
                                   !.kind = "tools/call"]]
    /\ UNCHANGED <<sse, loop>>
    /\ UNCHANGED ctVars

\* the client's body reaches request.receive
BodyArrives(r) ==
    /\ req[r].pc = "reading"
    /\ req' = [req EXCEPT ![r].pc = "ready"]
    /\ UNCHANGED <<sse, loop, clock>>
    /\ UNCHANGED ctVars

\* transport.handle_request(..., server, ...) refuses the request
HandleRequestRefuses(r) ==
    /\ LoopFree(loop)
    /\ req[r].pc = "ready"
    /\ req[r].route = "/mcp"
    /\ req' = [req EXCEPT ![r].pc = "done", ![r].outcome = "refused"]
    /\ UNCHANGED <<sse, loop, clock>>
    /\ UNCHANGED ctVars

\* transport.handle_request(..., server, ...) serves the request on the
\* request's own transport: DELETE ends the transport, GET opens its push
\* channel, POST hands the message to the server (initialize, or a tool call
\* that runs call_tool)
HandleRequest(r) ==
    /\ LoopFree(loop)
    /\ req[r].pc = "ready"
    /\ req[r].route = "/mcp"
    /\ CASE req[r].method = "DELETE" ->
              /\ req' = [req EXCEPT ![r].pc = "done",
                                    ![r].outcome = "terminated"]
              /\ UNCHANGED loop
         [] req[r].method = "GET" ->
              /\ req' = [req EXCEPT ![r].pc = "done", ![r].outcome = "stream"]
              /\ UNCHANGED loop
         [] req[r].method = "POST" /\ req[r].kind = "initialize" ->
              /\ req' = [req EXCEPT ![r].pc = "done",
                                    ![r].outcome = "initialized"]
              /\ UNCHANGED loop
         [] req[r].method = "POST" /\ req[r].kind = "tools/call" ->
              /\ req' = [req EXCEPT ![r].pc = "backend", ![r].calls = @ + 1]
              /\ loop' = r
    /\ UNCHANGED <<sse, clock>>
    /\ UNCHANGED ctVars

\* handle_sse: GET /sse opens a streaming session under a new id c and runs
\* the server on its streams
HandleSse(c) ==
    /\ LoopFree(loop)
    /\ sse[c] = "absent"
    /\ \A r \in Requests : req[r].sid # c     \* the id is minted fresh
    /\ sse' = [sse EXCEPT ![c] = "open"]
    /\ UNCHANGED <<req, loop, clock>>
    /\ UNCHANGED ctVars

\* sse_transport.handle_post_message: the message goes to the session's
\* server.run, which calls call_tool; a session that is not open is refused
HandlePostMessage(r) ==
    /\ LoopFree(loop)
    /\ req[r].pc = "ready"
    /\ req[r].route = "/messages"
    /\ IF req[r].sid \in SessionIds /\ sse[req[r].sid] = "open"
       THEN /\ req' = [req EXCEPT ![r].pc = "backend", ![r].calls = @ + 1]
            /\ loop' = r
       ELSE /\ req' = [req EXCEPT ![r].pc = "done", ![r].outcome = "rejected"]
            /\ UNCHANGED loop
    /\ UNCHANGED <<sse, clock>>
    /\ UNCHANGED ctVars

\* the synchronous backend call of request r returns or raises; call_tool
\* returns its result (or its error result) and the event loop is free again
BackendReturns(r, how) ==
    /\ req[r].pc = "backend"
    /\ loop = r
    /\ req' = [req EXCEPT ![r].pc = "done", ![r].outcome = how]
    /\ loop' = 0
    /\ UNCHANGED <<sse, clock>>
    /\ UNCHANGED ctVars

\* the client of streaming session c goes away
Disconnect(c) ==
    /\ sse[c] = "open"
    /\ sse' = [sse EXCEPT ![c] = "closed"]
    /\ req' = [r \in Requests |->
                 IF /\ req[r].route = "/messages"
                    /\ req[r].sid = c
                    /\ req[r].pc = "backend"
                 THEN [req[r] EXCEPT !.gone = TRUE]
                 ELSE req[r]]
    /\ UNCHANGED <<loop, clock>>
    /\ UNCHANGED ctVars

McpShapes ==
    {<<"GET", "">>, <<"DELETE", "">>, <<"POST", "initialize">>,
     <<"POST", "tools/call">>}

Next ==
    \/ \E r \in Requests, sh \in McpShapes, sid \in SessionIds \cup {NoSid} :
          McpEndpoint(r, sh[1], sid, sh[2])
    \/ \E r \in Requests, sid \in SessionIds \cup {NoSid} : HandleMessages(r, sid)
    \/ \E r \in Requests : BodyArrives(r)
    \/ \E r \in Requests : HandleRequestRefuses(r)
    \/ \E r \in Requests : HandleRequest(r)
    \/ \E c \in SessionIds : HandleSse(c)
    \/ \E r \in Requests : HandlePostMessage(r)
    \/ \E r \in Requests, how \in {"result", "error"} : BackendReturns(r, how)
    \/ \E c \in SessionIds : Disconnect(c)

Init == InitCallTool /\ InitServer

Spec == Init /\ [][Next]_vars

SpecCallTool == Init /\ [][NextCallTool]_vars

(***************************************************************************)
(* Properties of the server, over the behaviours of Spec                   *)
(***************************************************************************)
Streaming(r) == req[r].route = "/messages"

\* C7: while the call_tool of one session waits for the backend, a request
\* of another session that is ready to be handled can be handled.  Stated
\* for the streaming sessions, whose path to call_tool the source decides.
C7_SlowBackendDelaysNoOtherSession ==
    \A r1, r2 \in Requests :
        ( /\ Streaming(r1)
          /\ Streaming(r2)
          /\ req[r1].pc = "backend"
          /\ req[r2].pc = "ready"
          /\ req[r1].sid # req[r2].sid
          /\ req[r2].sid \in SessionIds
          /\ sse[req[r2].sid] = "open" ) =>
            ENABLED HandlePostMessage(r2)

\* C8: a backend call that was in flight when its streaming session was
\* disconnected never runs to completion (it is cancelled), and no request
\* issues its backend call more than once.
C8_DisconnectCancelsBackendCall ==
    \A r \in Requests :
        /\ req[r].gone => (req[r].pc = "backend" \/ req[r].outcome = "cancelled")
        /\ req[r].calls <= 1

====
